---- MODULE Spec2Model ----
(***************************************************************************)
(* Model of pypsa-grid-analysis.py: the script that normalises the 50Hertz *)
(* static grid table, loads the PyPSA-Eur and PyPSA-Earth networks and     *)
(* composes a layered folium map that is saved as one HTML file.           *)
(*                                                                         *)
(* The script is a straight-line program.  Its state is the three tables   *)
(* it holds (netzmodell, n, m), the map under construction and the         *)
(* position in the script (pc).  The three input files are the             *)
(* environment: they are chosen in Init and never change.                  *)
(***************************************************************************)
EXTENDS Integers, Sequences, FiniteSets, TLC

(***************************************************************************)
(* binary64 arithmetic.  pandas and numpy compute every numeric column in  *)
(* IEEE-754 double precision, round-to-nearest-even.  A value is zero or a *)
(* positive normal number m * 2^e with a 53-bit mantissa m kept in two     *)
(* limbs, m = hi * 2^26 + lo, 2^26 <= hi < 2^27, 0 <= lo < 2^26.  The      *)
(* columns of the table are positive, finite quantities (coordinates in    *)
(* Germany, ratings, impedances), so signs, infinities, NaN and subnormal  *)
(* numbers are outside the modelled inputs.                                *)
(***************************************************************************)
Limb == 2^26
Top == 2^26

FZero == [hi |-> 0, lo |-> 0, e |-> 0]
IsZero(a) == a.hi = 0 /\ a.lo = 0

\* two-limb naturals <<hi, lo>>, lo < Limb
Geq2(a, b) == a[1] > b[1] \/ (a[1] = b[1] /\ a[2] >= b[2])
Sub2(a, b) ==
    IF a[2] >= b[2] THEN <<a[1] - b[1], a[2] - b[2]>>
                    ELSE <<a[1] - b[1] - 1, a[2] + Limb - b[2]>>
Add2(a, b) ==
    LET l == a[2] + b[2] IN <<a[1] + b[1] + (l \div Limb), l % Limb>>
Dbl2(a) == Add2(a, a)
Half2(a) == <<a[1] \div 2, (a[2] \div 2) + (a[1] % 2) * (Limb \div 2)>>
\* shift right by one bit, OR-ing the bit shifted out into the new low bit
HalfJam2(a) ==
    LET h == Half2(a)
    IN IF a[2] % 2 = 1 /\ h[2] % 2 = 0 THEN <<h[1], h[2] + 1>> ELSE h

\* round a 53-bit mantissa m with guard bit g and sticky bit s to nearest, ties to even
Round(m, g, s, e) ==
    IF g = 1 /\ (s = 1 \/ m[2] % 2 = 1)
    THEN LET u == Add2(m, <<0, 1>>)
         IN IF u[1] >= 2 * Top THEN [hi |-> Top, lo |-> 0, e |-> e + 1]
                               ELSE [hi |-> u[1], lo |-> u[2], e |-> e]
    ELSE [hi |-> m[1], lo |-> m[2], e |-> e]

\* the double that holds the natural number n (0 < n < 2^27) exactly
FromNat(n) ==
    IF n = 0 THEN FZero
    ELSE LET k == CHOOSE k \in 0..26 : n * 2^k >= Top /\ n * 2^k < 2 * Top
         IN [hi |-> n * 2^k, lo |-> 0, e |-> 0 - 26 - k]

\* bit i of a two-limb natural
Bit(m, i) ==
    IF i < 26 THEN (m[2] \div (2^i)) % 2 ELSE (m[1] \div (2^(i - 26))) % 2

\* the bit-serial loops of division and multiplication: Step(p, i) applied for
\* i = 1..56 in order, each result computed before the next one is started
Rep8(Step(_, _), p, base) ==
    LET p1 == Step(p, base + 1)
        p2 == Step(p1, base + 2)
        p3 == Step(p2, base + 3)
        p4 == Step(p3, base + 4)
        p5 == Step(p4, base + 5)
        p6 == Step(p5, base + 6)
        p7 == Step(p6, base + 7)
        p8 == Step(p7, base + 8)
    IN <<p1, p2, p3, p4, p5, p6, p7, p8>>[8]
Rep56(Step(_, _), p) ==
    LET q1 == Rep8(Step, p, 0)
        q2 == Rep8(Step, q1, 8)
        q3 == Rep8(Step, q2, 16)
        q4 == Rep8(Step, q3, 24)
        q5 == Rep8(Step, q4, 32)
        q6 == Rep8(Step, q5, 40)
        q7 == Rep8(Step, q6, 48)
    IN <<q1, q2, q3, q4, q5, q6, q7>>[7]

\* a / b, b nonzero: restoring division, one quotient bit per step for 53
\* steps; the state is <<quotient, remainder>>
FDiv(a, b) ==
    IF IsZero(a) THEN FZero
    ELSE LET ma == <<a.hi, a.lo>>
             mb == <<b.hi, b.lo>>
             ge == Geq2(ma, mb)
             nn == IF ge THEN ma ELSE Dbl2(ma)
             Step(p, i) ==
                 IF i > 53 THEN p
                 ELSE LET r2 == Dbl2(p[2])
                      IN IF Geq2(r2, mb)
                         THEN <<Add2(Dbl2(p[1]), <<0, 1>>), Sub2(r2, mb)>>
                         ELSE <<Dbl2(p[1]), r2>>
             qr == Rep56(Step, <<<<0, 1>>, Sub2(nn, mb)>>)
             q == qr[1]
         IN Round(Half2(q), q[2] % 2, IF qr[2] = <<0, 0>> THEN 0 ELSE 1,
                  a.e - b.e - 52 - (IF ge THEN 0 ELSE 1))

\* m shifted right by d bits, the low bit of the result OR-ed with every bit
\* shifted out
Jam(m, lost) == IF lost /\ m[2] % 2 = 0 THEN <<m[1], m[2] + 1>> ELSE m
ShiftJamSmall(m, d) ==
    Jam(<<m[1] \div (2^d), (m[2] \div (2^d)) + (m[1] % (2^d)) * 2^(26 - d)>>,
        m[2] % (2^d) # 0)
ShiftJam(m, d) ==
    IF d < 26 THEN ShiftJamSmall(m, d)
    ELSE LET x == m[1] \div (2^(d - 26))
         IN Jam(<<x \div Limb, x % Limb>>,
                m[2] # 0 \/ m[1] % (2^(d - 26)) # 0)

\* a + b: the smaller operand is aligned with two extra bits and a sticky bit
FAdd(a, b) ==
    IF IsZero(a) THEN b
    ELSE IF IsZero(b) THEN a
    ELSE LET big == IF a.e >= b.e THEN a ELSE b
             sml == IF a.e >= b.e THEN b ELSE a
             aa == Dbl2(Dbl2(<<big.hi, big.lo>>))
             bb == IF big.e - sml.e > 56 THEN <<0, 1>>
                   ELSE ShiftJam(Dbl2(Dbl2(<<sml.hi, sml.lo>>)), big.e - sml.e)
             s0 == Add2(aa, bb)
             carry == s0[1] >= 8 * Top
             s == IF carry THEN HalfJam2(s0) ELSE s0
         IN Round(Half2(Half2(s)), (s[2] \div 2) % 2, s[2] % 2,
                  big.e + (IF carry THEN 1 ELSE 0))

\* a * b: shift-and-add over the 53 bits of b from the lowest; the state is
\* <<high part, last bit shifted out, the one before, OR of the earlier ones>>
FMul(a, b) ==
    IF IsZero(a) \/ IsZero(b) THEN FZero
    ELSE LET ma == <<a.hi, a.lo>>
             mb == <<b.hi, b.lo>>
             Step(p, i) ==
                 IF i > 53 THEN p
                 ELSE LET a1 == IF Bit(mb, i - 1) = 1 THEN Add2(p[1], ma) ELSE p[1]
                      IN <<Half2(a1), a1[2] % 2, p[2],
                           IF p[3] = 1 THEN 1 ELSE p[4]>>
             p == Rep56(Step, <<<<0, 0>>, 0, 0, 0>>)
             acc == p[1]
         IN IF acc[1] >= Top
            THEN Round(acc, p[2], IF p[3] = 1 THEN 1 ELSE p[4], a.e + b.e + 53)
            ELSE Round(Add2(Dbl2(acc), <<0, p[2]>>), p[3], p[4], a.e + b.e + 52)

\* np.sqrt(3) = 0x1.bb67ae8584caap+0 and the literal 1e3
Sqrt3 == [hi |-> 116235962, lo |-> 5786794, e |-> -52]
Thousand == FromNat(1000)
One == FromNat(1)

(***************************************************************************)
(* Sequences and strings.  A substation name is the sequence of its code   *)
(* points, so that Python's string order and ' '.join are computed, not    *)
(* assumed.                                                                *)
(***************************************************************************)
Range(s) == {s[i] : i \in DOMAIN s}
Col(rows, c) == [i \in DOMAIN rows |-> rows[i][c]]

SP == 32

RECURSIVE StrLess(_, _)
\* Python's s < t on str: lexicographic by code point, a proper prefix is smaller
StrLess(s, t) ==
    IF t = <<>> THEN FALSE
    ELSE IF s = <<>> THEN TRUE
    ELSE IF s[1] # t[1] THEN s[1] < t[1]
    ELSE StrLess(Tail(s), Tail(t))

\* sorted([a, b]): stable, ascending
sorted(a, b) == IF StrLess(b, a) THEN <<b, a>> ELSE <<a, b>>

\* the key without the sort: the names joined in their column order
line_name_unsorted(row) == row.Sub1 \o <<SP>> \o row.Sub2
\* ' '.join(sorted([row['Sub1'], row['Sub2']]))
line_name(row) ==
    LET p == sorted(row.Sub1, row.Sub2) IN p[1] \o <<SP>> \o p[2]

RECURSIVE SortKeys(_)
\* the group keys in ascending order (groupby sorts its keys)
SortKeys(S) ==
    IF S = {} THEN <<>>
    ELSE LET k == CHOOSE k \in S : \A o \in S \ {k} : StrLess(k, o)
         IN <<k>> \o SortKeys(S \ {k})

(***************************************************************************)
(* Aggregations of one group's column (a sequence of doubles).             *)
(***************************************************************************)
\* left-to-right summation from zero
SumOf(s) ==
    LET part[k \in 0..Len(s)] ==
            IF k = 0 THEN FZero ELSE FAdd(part[k - 1], s[k])
    IN part[Len(s)]

agg_sum(s) == SumOf(s)
agg_mean(s) == FDiv(SumOf(s), FromNat(Len(s)))
agg_first(s) == s[1]

\* 1 / sum(1 / series)
parallel_resistance(series) ==
    FDiv(One, SumOf([i \in DOMAIN series |-> FDiv(One, series[i])]))

\* from I to MVA: MVA * kV / 1e3 * np.sqrt(3)
MVAof(amps, kV) == FMul(FDiv(FMul(amps, kV), Thousand), Sqrt3)

Agg(key, g) ==
    [line_name |-> key,
     lon1 |-> agg_mean(Col(g, "lon1")),
     lon2 |-> agg_mean(Col(g, "lon2")),
     lat1 |-> agg_mean(Col(g, "lat1")),
     lat2 |-> agg_mean(Col(g, "lat2")),
     MVA |-> agg_sum(Col(g, "MVA")),
     kV |-> agg_mean(Col(g, "kV")),
     r |-> parallel_resistance(Col(g, "r")),
     x |-> parallel_resistance(Col(g, "x")),
     b |-> agg_mean(Col(g, "b")),
     length |-> agg_mean(Col(g, "length")),
     Sub1 |-> agg_first(Col(g, "Sub1")),
     Sub2 |-> agg_first(Col(g, "Sub2"))]

GroupOf(rows, key) == SelectSeq(rows, LAMBDA row : row.line_name = key)

\* netzmodell.groupby("line_name").agg({...}).reset_index()
groupby_agg(rows) ==
    LET keys == SortKeys({rows[i].line_name : i \in DOMAIN rows})
    IN [i \in DOMAIN keys |-> Agg(keys[i], GroupOf(rows, keys[i]))]

(***************************************************************************)
(* Network tables.  A missing value (the NaN that Series.map gives for a   *)
(* key that is not in the mapping) is "NaN" in a text column, NaNInt in a  *)
(* whole-number column and 0/0 in a per-unit column.                       *)
(***************************************************************************)
NaNInt == 0 - 1
NaNRatio == [num |-> 0, den |-> 0]

HasBus(buses, id) == \E i \in DOMAIN buses : buses[i].id = id
\* buses.loc[id]
BusLoc(buses, id) == buses[CHOOSE i \in DOMAIN buses : buses[i].id = id]

\* bus0.map(buses.country)
MapCountry(buses, id) ==
    IF HasBus(buses, id) THEN BusLoc(buses, id).country ELSE "NaN"
\* bus0.map(buses.v_nom)
MapVnom(buses, id) ==
    IF HasBus(buses, id) THEN BusLoc(buses, id).v_nom ELSE NaNInt

\* table['country'] = table.bus0.map(buses.country)
WithCountry(table, buses) ==
    [i \in DOMAIN table |->
        ("country" :> MapCountry(buses, table[i].bus0)) @@ table[i]]

\* a query that keeps every row
QueryAll(table) == table
\* table.query("country == 'DE'")
QueryDE(table) == SelectSeq(table, LAMBDA e : e.country = "DE")

\* carrier not in ["AC", "DC"]
CarrierInScope(c) == c \in {"AC", "DC"}

PerUnit(val, v) ==
    IF v = NaNInt THEN NaNRatio ELSE [num |-> val, den |-> v * v]

\* Network.calculate_dependent_values(): the library call appends the bus0
\* voltage to the lines and writes their per-unit impedances
calculate_dependent_values(net) ==
    [net EXCEPT !.lines =
        [i \in DOMAIN net.lines |->
            LET v == MapVnom(net.buses, net.lines[i].bus0)
            IN [net.lines[i] EXCEPT !.v_nom = v,
                                    !.x_pu = PerUnit(net.lines[i].x, v),
                                    !.r_pu = PerUnit(net.lines[i].r, v)]]]

\* buses.loc[id, ["y", "x"]].values
Coords(buses, id) == <<BusLoc(buses, id).y, BusLoc(buses, id).x>>

(***************************************************************************)
(* The inputs.  Bounds on the sizes of the three input files.              *)
(***************************************************************************)
MaxRows == 3
MaxLines == 1
MaxLinks == 1

\* substation names: "A", "B", "C", "A B", "B C"
NameA == <<65>>
NameB == <<66>>
NameC == <<67>>
NameAB == <<65, 32, 66>>
NameBC == <<66, 32, 67>>

\* the position of a substation: every source row gives a name the same coordinates
Lon(nm) ==
    CASE nm = NameA -> 10 [] nm = NameB -> 12 [] nm = NameC -> 14
      [] nm = NameAB -> 11 [] nm = NameBC -> 13
Lat(nm) ==
    CASE nm = NameA -> 50 [] nm = NameB -> 52 [] nm = NameC -> 54
      [] nm = NameAB -> 51 [] nm = NameBC -> 53

\* one row of the table as read: MVA still holds the column 'Fixed' (current rating, A)
MkRow(s1, s2, amps, kv, r, x) ==
    [Sub1 |-> s1, lon1 |-> FromNat(Lon(s1)), lat1 |-> FromNat(Lat(s1)),
     Sub2 |-> s2, lon2 |-> FromNat(Lon(s2)), lat2 |-> FromNat(Lat(s2)),
     MVA |-> FromNat(amps), kV |-> FromNat(kv),
     r |-> FromNat(r), x |-> FromNat(x),
     b |-> FromNat(5), length |-> FromNat(30)]

RECURSIVE SeqsUpTo(_, _)
\* the sequences over S of length 0..k
SeqsUpTo(S, k) ==
    IF k = 0 THEN {<<>>}
    ELSE LET shorter == SeqsUpTo(S, k - 1)
         IN shorter \cup {Append(q, e) : q \in shorter, e \in S}

\* rows that differ in their endpoints (both orientations, names with spaces)
RouteRows ==
    {MkRow(pr[1], pr[2], 1000, 110, 10, 20) :
        pr \in {<<NameA, NameB>>, <<NameB, NameA>>, <<NameA, NameC>>,
                <<NameAB, NameC>>, <<NameA, NameBC>>}}
\* rows of one route that differ in their electrical parameters
CircuitRows ==
    {MkRow(NameA, NameB, 1000, q[1], q[2], q[3]) :
        q \in {<<380, 10, 10>>, <<380, 49, 3>>, <<220, 10, 3>>, <<220, 3, 49>>}}

CsvOf(rows) == [columnsOk |-> TRUE, fixedNumeric |-> TRUE, rows |-> rows]
DefaultCsv == CsvOf(<<MkRow(NameA, NameB, 1000, 110, 10, 20)>>)

\* bus tables: b1 and b2, each absent or present with a country and a carrier
MkBus(id, kind) ==
    [id |-> id, country |-> kind[1], carrier |-> kind[2],
     x |-> IF id = "b1" THEN 13 ELSE 11,
     y |-> IF id = "b1" THEN 52 ELSE 53,
     v_nom |-> IF id = "b1" THEN 380 ELSE 220]
BusTables ==
    {(IF k1 = <<>> THEN <<>> ELSE <<MkBus("b1", k1)>>)
        \o (IF k2 = <<>> THEN <<>> ELSE <<MkBus("b2", k2)>>) :
        k1 \in {<<>>, <<"DE", "AC">>, <<"DE", "H2">>, <<"FR", "AC">>},
        k2 \in {<<>>, <<"DE", "DC">>, <<"FR", "DC">>}}

\* "b9" is an identifier that no bus table holds
MkLine(ends) ==
    [bus0 |-> ends[1], bus1 |-> ends[2], s_nom |-> 1700, length |-> 30,
     v_nom |-> 380, r |-> 2, x |-> 8,
     x_pu |-> [num |-> 0, den |-> 1], r_pu |-> [num |-> 0, den |-> 1]]
LineKinds ==
    {MkLine(ends) : ends \in {<<"b1", "b2">>, <<"b2", "b1">>,
                              <<"b9", "b1">>, <<"b1", "b9">>}}
MkLink(k) ==
    [bus0 |-> k[1], bus1 |-> k[2], carrier |-> k[3],
     p_nom |-> 600, p_nom_max |-> 1200]
LinkKinds ==
    {MkLink(k) : k \in {<<"b1", "b2", "DC">>, <<"b1", "b2", "H2">>,
                        <<"b9", "b1", "DC">>, <<"b1", "b9", "DC">>,
                        <<"b1", "b9", "H2">>}}

\* the index of a branch table: the position of the row
Indexed(table) == [i \in DOMAIN table |-> ("id" :> i) @@ table[i]]

Networks ==
    {[buses |-> bt, lines |-> Indexed(ls), links |-> Indexed(ks)] :
        bt \in BusTables,
        ls \in SeqsUpTo(LineKinds, MaxLines),
        ks \in SeqsUpTo(LinkKinds, MaxLinks)}
DefaultNet ==
    [buses |-> <<MkBus("b1", <<"DE", "AC">>), MkBus("b2", <<"DE", "DC">>)>>,
     lines |-> Indexed(<<MkLine(<<"b1", "b2">>)>>),
     links |-> Indexed(<<MkLink(<<"b1", "b2", "DC">>)>>)]
EmptyNet == [buses |-> <<>>, lines |-> <<>>, links |-> <<>>]

(***************************************************************************)
(* The state.                                                              *)
(***************************************************************************)
VARIABLES
    csvFile,     \* data/StatischesNetzmodell_Datentabelle2023.csv
    eurFile,     \* data/base_eur.nc
    earthFile,   \* data/base_earth.nc
    pc,          \* the position in the script
    netzmodell,  \* the reference table
    n,           \* the PyPSA-Eur network
    m,           \* the PyPSA-Earth network
    folium_map,  \* the map: its start location, its layers, its layer control
    seen,        \* the substation names that have a marker
    idx,         \* the position of the running for loop in the table it iterates
    htmlFile     \* pypsa-grid-analysis.html

files == <<csvFile, eurFile, earthFile>>
vars == <<csvFile, eurFile, earthFile, pc, netzmodell, n, m, folium_map, seen,
          idx, htmlFile>>

NoMap == [location |-> <<>>, layers |-> <<>>, control |-> FALSE]

InitState ==
    /\ pc = "start"
    /\ netzmodell = <<>>
    /\ n = EmptyNet
    /\ m = EmptyNet
    /\ folium_map = NoMap
    /\ seen = <<>>
    /\ idx = 0
    /\ htmlFile = [written |-> FALSE, map |-> NoMap]

\* the table varies in its routes
InitRoutes ==
    /\ csvFile \in {CsvOf(rows) : rows \in SeqsUpTo(RouteRows, MaxRows) \ {<<>>}}
    /\ eurFile = DefaultNet
    /\ earthFile = DefaultNet
\* the table varies in the circuits of one route
InitCircuits ==
    /\ csvFile \in {CsvOf(rows) : rows \in SeqsUpTo(CircuitRows, MaxRows) \ {<<>>}}
    /\ eurFile = DefaultNet
    /\ earthFile = DefaultNet
\* the table lacks a column, or holds text in the column 'Fixed'
InitBadTable ==
    /\ csvFile \in {[DefaultCsv EXCEPT !.columnsOk = FALSE],
                    [DefaultCsv EXCEPT !.fixedNumeric = FALSE]}
    /\ eurFile = DefaultNet
    /\ earthFile = DefaultNet
\* one of the networks varies
InitNetworks ==
    /\ csvFile = DefaultCsv
    /\ \/ eurFile \in Networks /\ earthFile = DefaultNet
       \/ eurFile = DefaultNet /\ earthFile \in Networks

Init ==
    /\ InitState
    /\ (InitRoutes \/ InitCircuits \/ InitBadTable \/ InitNetworks)

(***************************************************************************)
(* The reference-table normaliser (lines 36-109).                          *)
(***************************************************************************)
Abort == pc' = "aborted"

\* pd.read_csv(..., header=[0,1])
ReadCsv ==
    /\ pc = "start"
    /\ netzmodell' = csvFile.rows
    /\ pc' = "read"
    /\ UNCHANGED <<files, n, m, folium_map, seen, idx, htmlFile>>

\* a selection that goes on without the missing column
SelectColumnsLenient ==
    /\ pc = "read"
    /\ pc' = "selected"
    /\ UNCHANGED <<files, netzmodell, n, m, folium_map, seen, idx, htmlFile>>
\* the twelve (group, field) columns are selected and renamed; a missing one
\* raises KeyError
SelectColumns ==
    /\ pc = "read"
    /\ \/ csvFile.columnsOk /\ pc' = "selected"
       \/ ~csvFile.columnsOk /\ Abort
    /\ UNCHANGED <<files, netzmodell, n, m, folium_map, seen, idx, htmlFile>>

\* netzmodell.MVA = netzmodell.MVA * netzmodell.kV / 1e3 * np.sqrt(3); text in
\* the column raises TypeError
DeriveMVA ==
    /\ pc = "selected"
    /\ \/ /\ csvFile.fixedNumeric
          /\ netzmodell' = [i \in DOMAIN netzmodell |->
                [netzmodell[i] EXCEPT
                    !.MVA = MVAof(netzmodell[i].MVA, netzmodell[i].kV)]]
          /\ pc' = "derived"
       \/ /\ ~csvFile.fixedNumeric
          /\ Abort
          /\ UNCHANGED netzmodell
    /\ UNCHANGED <<files, n, m, folium_map, seen, idx, htmlFile>>

\* netzmodell['line_name'] = ...apply(lambda row: ' '.join(sorted(...)), axis=1)
AddLineName ==
    /\ pc = "derived"
    /\ netzmodell' = [i \in DOMAIN netzmodell |->
            ("line_name" :> line_name(netzmodell[i])) @@ netzmodell[i]]
    /\ pc' = "named"
    /\ UNCHANGED <<files, n, m, folium_map, seen, idx, htmlFile>>

\* groupby("line_name").agg(...).reset_index(); the columns of the result are
\* distinct, so dropping duplicated columns (line 109) keeps them all
GroupAggregate ==
    /\ pc = "named"
    /\ netzmodell' = groupby_agg(netzmodell)
    /\ pc' = "grouped"
    /\ UNCHANGED <<files, n, m, folium_map, seen, idx, htmlFile>>

(***************************************************************************)
(* The model loader (lines 111-121).                                       *)
(***************************************************************************)
\* an annotation that also writes into the bus table
AnnotatedWithBuses(net) ==
    [net EXCEPT !.links = WithCountry(net.links, net.buses),
                !.lines = WithCountry(net.lines, net.buses),
                !.buses = [i \in DOMAIN net.buses |->
                              [net.buses[i] EXCEPT !.carrier = "AC"]]]
\* links['country'] = links.bus0.map(buses.country), and the same for lines
Annotated(net) ==
    [net EXCEPT !.links = WithCountry(net.links, net.buses),
                !.lines = WithCountry(net.lines, net.buses)]

LoadEur ==
    /\ pc = "grouped"
    /\ n' = eurFile
    /\ pc' = "eur_loaded"
    /\ UNCHANGED <<files, netzmodell, m, folium_map, seen, idx, htmlFile>>
AnnotateEur ==
    /\ pc = "eur_loaded"
    /\ n' = Annotated(n)
    /\ pc' = "eur_annotated"
    /\ UNCHANGED <<files, netzmodell, m, folium_map, seen, idx, htmlFile>>
RecomputeEur ==
    /\ pc = "eur_annotated"
    /\ n' = calculate_dependent_values(n)
    /\ pc' = "eur_ready"
    /\ UNCHANGED <<files, netzmodell, m, folium_map, seen, idx, htmlFile>>
LoadEarth ==
    /\ pc = "eur_ready"
    /\ m' = earthFile
    /\ pc' = "earth_loaded"
    /\ UNCHANGED <<files, netzmodell, n, folium_map, seen, idx, htmlFile>>
AnnotateEarth ==
    /\ pc = "earth_loaded"
    /\ m' = Annotated(m)
    /\ pc' = "earth_annotated"
    /\ UNCHANGED <<files, netzmodell, n, folium_map, seen, idx, htmlFile>>
RecomputeEarth ==
    /\ pc = "earth_annotated"
    /\ m' = calculate_dependent_values(m)
    /\ pc' = "earth_ready"
    /\ UNCHANGED <<files, netzmodell, n, folium_map, seen, idx, htmlFile>>

(***************************************************************************)
(* The map composer (lines 123-260).                                       *)
(***************************************************************************)
EurBusesName == "PyPSA-Eur buses"
EarthBusesName == "PyPSA-Earth buses"
RefBusesName == "50Hertz buses"
EurLinesName == "PyPSA-Eur lines"
EarthLinesName == "PyPSA-Earth lines"
EarthLinksName == "PyPSA-Earth links"
\* the name of the block the Eur link block repeats
EurLinksNameCopied == "PyPSA-Earth links"
EurLinksName == "PyPSA-Eur links"
RefLinesName == "50Hertz lines"

\* MarkerCluster(name=...).add_to(folium_map)
AddLayer(fm, name) ==
    [fm EXCEPT !.layers = Append(@, [name |-> name, items |-> <<>>])]
\* item.add_to(cluster)
AddTo(fm, name, item) ==
    [fm EXCEPT !.layers = [i \in DOMAIN fm.layers |->
        IF fm.layers[i].name = name
        THEN [fm.layers[i] EXCEPT !.items = Append(@, item)]
        ELSE fm.layers[i]]]

\* folium.Map(location=[n.buses.y[0], n.buses.x[0]], zoom_start=5); an empty
\* bus table has no first row
CreateMap ==
    /\ pc = "earth_ready"
    /\ \/ /\ n.buses # <<>>
          /\ folium_map' = [location |-> <<n.buses[1].y, n.buses[1].x>>,
                            layers |-> <<>>, control |-> FALSE]
          /\ pc' = "map"
       \/ /\ n.buses = <<>>
          /\ Abort
          /\ UNCHANGED folium_map
    /\ UNCHANGED <<files, netzmodell, n, m, seen, idx, htmlFile>>

\* the statement after a for loop runs when the loop has consumed its table
LoopOver(here, table) == pc = here /\ idx > Len(table)
\* a MarkerCluster is created and the next for loop starts
StartLayer(name, next) ==
    /\ folium_map' = AddLayer(folium_map, name)
    /\ pc' = next
    /\ idx' = 1
    /\ UNCHANGED <<files, netzmodell, n, m, htmlFile>>

BusMarker(bus, color) ==
    [name |-> "Substations", location |-> <<bus.y, bus.x>>, popup |-> bus.id,
     color |-> color]

\* one iteration of: for index, bus in net.buses.query("country == 'DE'").iterrows()
BusStep(here, net, layer, color) ==
    /\ pc = here
    /\ idx <= Len(QueryDE(net.buses))
    /\ LET bus == QueryDE(net.buses)[idx]
       IN \/ /\ ~CarrierInScope(bus.carrier)
             /\ UNCHANGED folium_map
          \/ /\ CarrierInScope(bus.carrier)
             /\ folium_map' = AddTo(folium_map, layer, BusMarker(bus, color))
    /\ idx' = idx + 1
    /\ UNCHANGED <<files, pc, netzmodell, n, m, seen, htmlFile>>

EurBusLayer ==
    /\ pc = "map"
    /\ StartLayer(EurBusesName, "eur_buses")
    /\ UNCHANGED seen
EurBusStep == BusStep("eur_buses", n, EurBusesName, "gray")

EarthBusLayer ==
    /\ LoopOver("eur_buses", QueryDE(n.buses))
    /\ StartLayer(EarthBusesName, "earth_buses")
    /\ UNCHANGED seen
EarthBusStep == BusStep("earth_buses", m, EarthBusesName, "black")

\* a test that never finds the name
NotSeenEver(name, sofar) == TRUE
\* if name not in seen
NotSeen(name, sofar) == name \notin Range(sofar)

RefMarker(name, lat, lon) ==
    [name |-> "Substations 50Hertz", location |-> <<lat, lon>>, popup |-> name,
     color |-> "red"]

\* seen = []; bus_cluster_50 = MarkerCluster(name="50Hertz buses")
RefBusLayer ==
    /\ LoopOver("earth_buses", QueryDE(m.buses))
    /\ StartLayer(RefBusesName, "ref_buses")
    /\ seen' = <<>>
\* one iteration of: for index, bus in netzmodell.iterrows()
RefBusStep ==
    /\ pc = "ref_buses"
    /\ idx <= Len(netzmodell)
    /\ LET bus == netzmodell[idx]
           new1 == NotSeen(bus.Sub1, seen)
           map1 == IF new1
                   THEN AddTo(folium_map, RefBusesName,
                              RefMarker(bus.Sub1, bus.lat1, bus.lon1))
                   ELSE folium_map
           seen1 == IF new1 THEN Append(seen, bus.Sub1) ELSE seen
           new2 == NotSeen(bus.Sub2, seen1)
       IN /\ folium_map' = IF new2
                           THEN AddTo(map1, RefBusesName,
                                      RefMarker(bus.Sub2, bus.lat2, bus.lon2))
                           ELSE map1
          /\ seen' = IF new2 THEN Append(seen1, bus.Sub2) ELSE seen1
    /\ idx' = idx + 1
    /\ UNCHANGED <<files, pc, netzmodell, n, m, htmlFile>>

LinePopup(line) ==
    [s_nom |-> line.s_nom, length |-> line.length, kV |-> line.v_nom,
     r |-> line.r, x |-> line.x]
LinkPopup(link) ==
    [index |-> link.id, p_nom |-> link.p_nom, p_nom_max |-> link.p_nom_max]
\* folium.PolyLine(coordinates, popup=html, color=color); index is the loop's
\* row label, kept to tell which row a segment was drawn for
PolyLine(index, from, to, popup, color) ==
    [index |-> index, coordinates |-> <<from, to>>, popup |-> popup,
     color |-> color]

\* one iteration of: for index, line in net.lines.query("country == 'DE'").iterrows();
\* buses.loc raises KeyError for an identifier that is not in the bus table
LineStep(here, net, layer, color) ==
    /\ pc = here
    /\ idx <= Len(QueryDE(net.lines))
    /\ LET line == QueryDE(net.lines)[idx]
       IN \/ /\ HasBus(net.buses, line.bus0)
             /\ HasBus(net.buses, line.bus1)
             /\ folium_map' = AddTo(folium_map, layer,
                    PolyLine(line.id, Coords(net.buses, line.bus0),
                             Coords(net.buses, line.bus1), LinePopup(line), color))
             /\ idx' = idx + 1
             /\ UNCHANGED pc
          \/ /\ ~(HasBus(net.buses, line.bus0) /\ HasBus(net.buses, line.bus1))
             /\ Abort
             /\ UNCHANGED <<folium_map, idx>>
    /\ UNCHANGED <<files, netzmodell, n, m, seen, htmlFile>>

\* one iteration of: for index, line in net.links.query("country == 'DE'").iterrows()
LinkStep(here, net, layer, color) ==
    /\ pc = here
    /\ idx <= Len(QueryDE(net.links))
    /\ LET link == QueryDE(net.links)[idx]
       IN \/ /\ ~CarrierInScope(link.carrier)
             /\ idx' = idx + 1
             /\ UNCHANGED <<pc, folium_map>>
          \/ /\ CarrierInScope(link.carrier)
             /\ HasBus(net.buses, link.bus0)
             /\ HasBus(net.buses, link.bus1)
             /\ folium_map' = AddTo(folium_map, layer,
                    PolyLine(link.id, Coords(net.buses, link.bus0),
                             Coords(net.buses, link.bus1), LinkPopup(link), color))
             /\ idx' = idx + 1
             /\ UNCHANGED pc
          \/ /\ CarrierInScope(link.carrier)
             /\ ~(HasBus(net.buses, link.bus0) /\ HasBus(net.buses, link.bus1))
             /\ Abort
             /\ UNCHANGED <<folium_map, idx>>
    /\ UNCHANGED <<files, netzmodell, n, m, seen, htmlFile>>

EurLineLayer ==
    /\ LoopOver("ref_buses", netzmodell)
    /\ StartLayer(EurLinesName, "eur_lines")
    /\ UNCHANGED seen
EurLineStep == LineStep("eur_lines", n, EurLinesName, "gray")

EarthLineLayer ==
    /\ LoopOver("eur_lines", QueryDE(n.lines))
    /\ StartLayer(EarthLinesName, "earth_lines")
    /\ UNCHANGED seen
EarthLineStep == LineStep("earth_lines", m, EarthLinesName, "black")

EarthLinkLayer ==
    /\ LoopOver("earth_lines", QueryDE(m.lines))
    /\ StartLayer(EarthLinksName, "earth_links")
    /\ UNCHANGED seen
EarthLinkStep == LinkStep("earth_links", m, EarthLinksName, "black")

EurLinkLayer ==
    /\ LoopOver("earth_links", QueryDE(m.links))
    /\ StartLayer(EurLinksName, "eur_links")
    /\ UNCHANGED seen
EurLinkStep == LinkStep("eur_links", n, EurLinksName, "gray")

RefPopup(line) ==
    [s_nom |-> line.MVA, length |-> line.length, kV |-> line.kV,
     r |-> line.r, x |-> line.x]

RefLineLayer ==
    /\ LoopOver("eur_links", QueryDE(n.links))
    /\ StartLayer(RefLinesName, "ref_lines")
    /\ UNCHANGED seen
\* one iteration of: for index, line in netzmodell.iterrows()
RefLineStep ==
    /\ pc = "ref_lines"
    /\ idx <= Len(netzmodell)
    /\ LET line == netzmodell[idx]
       IN folium_map' = AddTo(folium_map, RefLinesName,
              PolyLine(idx - 1, <<line.lat1, line.lon1>>, <<line.lat2, line.lon2>>,
                       RefPopup(line), "red"))
    /\ idx' = idx + 1
    /\ UNCHANGED <<files, pc, netzmodell, n, m, seen, htmlFile>>

\* folium.LayerControl().add_to(folium_map)
AddLayerControl ==
    /\ LoopOver("ref_lines", netzmodell)
    /\ folium_map' = [folium_map EXCEPT !.control = TRUE]
    /\ pc' = "control"
    /\ UNCHANGED <<files, netzmodell, n, m, seen, idx, htmlFile>>

\* folium_map.save("pypsa-grid-analysis.html")
Save ==
    /\ pc = "control"
    /\ htmlFile' = [written |-> TRUE, map |-> folium_map]
    /\ pc' = "done"
    /\ UNCHANGED <<files, netzmodell, n, m, folium_map, seen, idx>>

Next ==
    \/ ReadCsv \/ SelectColumns \/ DeriveMVA \/ AddLineName \/ GroupAggregate
    \/ LoadEur \/ AnnotateEur \/ RecomputeEur
    \/ LoadEarth \/ AnnotateEarth \/ RecomputeEarth
    \/ CreateMap
    \/ EurBusLayer \/ EurBusStep
    \/ EarthBusLayer \/ EarthBusStep
    \/ RefBusLayer \/ RefBusStep
    \/ EurLineLayer \/ EurLineStep
    \/ EarthLineLayer \/ EarthLineStep
    \/ EarthLinkLayer \/ EarthLinkStep
    \/ EurLinkLayer \/ EurLinkStep
    \/ RefLineLayer \/ RefLineStep
    \/ AddLayerControl \/ Save

Spec == Init /\ [][Next]_vars

(***************************************************************************)
(* Positions in the script, in execution order.                            *)
(***************************************************************************)
PcSeq ==
    <<"start", "read", "selected", "derived", "named", "grouped",
      "eur_loaded", "eur_annotated", "eur_ready",
      "earth_loaded", "earth_annotated", "earth_ready",
      "map", "eur_buses", "earth_buses", "ref_buses", "eur_lines",
      "earth_lines", "earth_links", "eur_links", "ref_lines", "control", "done">>
Rank(p) == CHOOSE i \in DOMAIN PcSeq : PcSeq[i] = p
\* the run has not aborted and has executed the statement that leads to p
Reached(p) == pc # "aborted" /\ Rank(pc) >= Rank(p)

Join(a, b) == a \o <<32>> \o b
SamePair(r1, r2) == {r1.Sub1, r1.Sub2} = {r2.Sub1, r2.Sub2}
Reversed(r1, r2) == r1.Sub1 = r2.Sub2 /\ r1.Sub2 = r2.Sub1 /\ r1.Sub1 # r1.Sub2
SourceRows == csvFile.rows
\* the source rows that were merged into the record with key k
RowsOf(k) ==
    SelectSeq(SourceRows,
              LAMBDA row : k \in {Join(row.Sub1, row.Sub2), Join(row.Sub2, row.Sub1)})
LayerItems(fm, name) ==
    LET hit == {i \in DOMAIN fm.layers : fm.layers[i].name = name}
    IN IF hit = {} THEN <<>> ELSE fm.layers[CHOOSE i \in hit : TRUE].items
LayerNamesOf(fm) == [i \in DOMAIN fm.layers |-> fm.layers[i].name]

(***************************************************************************)
(* C1.  After the group-and-aggregate step no two records share a          *)
(* line_name, and a pair of substations that the source gives as (A,B) in  *)
(* one row and as (B,A) in another is held by exactly one merged record,   *)
(* whose key is the two names joined in sorted order.                      *)
(***************************************************************************)
C1_OneRecordPerPair ==
    Reached("grouped") =>
        /\ \A i, j \in DOMAIN netzmodell :
              i # j => netzmodell[i].line_name # netzmodell[j].line_name
        /\ \A i, j \in DOMAIN SourceRows :
              Reversed(SourceRows[i], SourceRows[j]) =>
                 LET a == SourceRows[i].Sub1
                     b == SourceRows[i].Sub2
                     recs == {k \in DOMAIN netzmodell :
                                netzmodell[k].line_name \in {Join(a, b), Join(b, a)}}
                 IN /\ Cardinality(recs) = 1
                    /\ \A k \in recs :
                          netzmodell[k].line_name =
                              IF StrLess(b, a) THEN Join(b, a) ELSE Join(a, b)
C1_Witness ==
    /\ Reached("grouped")
    /\ \E i, j \in DOMAIN SourceRows : Reversed(SourceRows[i], SourceRows[j])
    /\ Len(netzmodell) >= 2

(***************************************************************************)
(* C2.  Every merged record holds the exact parallel combination of its    *)
(* group: two circuits of 10 and 10 give 5, and a group of one circuit     *)
(* keeps its resistance, reactance, capacity and averaged fields.          *)
(***************************************************************************)
C2_ParallelExact ==
    Reached("grouped") =>
        \A k \in DOMAIN netzmodell :
            LET rec == netzmodell[k]
                g == RowsOf(rec.line_name)
            IN /\ (Len(g) = 2 /\ g[1].r = FromNat(10) /\ g[2].r = FromNat(10))
                      => rec.r = FromNat(5)
               /\ (Len(g) = 2 /\ g[1].x = FromNat(10) /\ g[2].x = FromNat(10))
                      => rec.x = FromNat(5)
               /\ Len(g) = 1 =>
                      /\ rec.r = g[1].r
                      /\ rec.x = g[1].x
                      /\ rec.MVA = MVAof(g[1].MVA, g[1].kV)
                      /\ rec.kV = g[1].kV /\ rec.b = g[1].b
                      /\ rec.length = g[1].length
                      /\ rec.lon1 = g[1].lon1 /\ rec.lat1 = g[1].lat1
                      /\ rec.lon2 = g[1].lon2 /\ rec.lat2 = g[1].lat2

(***************************************************************************)
(* C3.  Every item of every layer was drawn for an element of the model    *)
(* that the layer belongs to, and that element has country 'DE' (a bus or  *)
(* a link also carrier 'AC' or 'DC'); once the bus loop of a model is      *)
(* over, every bus that passes both filters has exactly one marker in the  *)
(* model's bus layer.                                                      *)
(***************************************************************************)
InRegion(e) == e.country = "DE"
InScope(e) == e.carrier = "AC" \/ e.carrier = "DC"
BusItemsOk(items, net) ==
    \A j \in DOMAIN items :
        \E i \in DOMAIN net.buses :
            /\ net.buses[i].id = items[j].popup
            /\ InRegion(net.buses[i]) /\ InScope(net.buses[i])
LineItemsOk(items, net) ==
    \A j \in DOMAIN items :
        \E i \in DOMAIN net.lines :
            /\ net.lines[i].id = items[j].index
            /\ InRegion(net.lines[i])
            /\ \E b \in DOMAIN net.buses :
                  net.buses[b].id = net.lines[i].bus0 /\ InRegion(net.buses[b])
LinkItemsOk(items, net) ==
    \A j \in DOMAIN items :
        \E i \in DOMAIN net.links :
            /\ net.links[i].id = items[j].index
            /\ InRegion(net.links[i]) /\ InScope(net.links[i])
            /\ \E b \in DOMAIN net.buses :
                  net.buses[b].id = net.links[i].bus0 /\ InRegion(net.buses[b])
OneMarkerEach(items, net) ==
    \A i \in DOMAIN net.buses :
        (InRegion(net.buses[i]) /\ InScope(net.buses[i])) =>
            Cardinality({j \in DOMAIN items : items[j].popup = net.buses[i].id}) = 1
C3_OnlyRegionRendered ==
    /\ \A l \in DOMAIN folium_map.layers :
          \A j \in DOMAIN folium_map.layers[l].items :
              LET nm == folium_map.layers[l].name
                  col == folium_map.layers[l].items[j].color
              IN /\ col = "gray" =>
                      nm \in {"PyPSA-Eur buses", "PyPSA-Eur lines", "PyPSA-Eur links"}
                 /\ col = "black" =>
                      nm \in {"PyPSA-Earth buses", "PyPSA-Earth lines",
                              "PyPSA-Earth links"}
                 /\ col = "red" => nm \in {"50Hertz buses", "50Hertz lines"}
    /\ BusItemsOk(LayerItems(folium_map, "PyPSA-Eur buses"), n)
    /\ BusItemsOk(LayerItems(folium_map, "PyPSA-Earth buses"), m)
    /\ LineItemsOk(LayerItems(folium_map, "PyPSA-Eur lines"), n)
    /\ LineItemsOk(LayerItems(folium_map, "PyPSA-Earth lines"), m)
    /\ LinkItemsOk(LayerItems(folium_map, "PyPSA-Eur links"), n)
    /\ LinkItemsOk(LayerItems(folium_map, "PyPSA-Earth links"), m)
    /\ Reached("earth_buses") =>
          OneMarkerEach(LayerItems(folium_map, "PyPSA-Eur buses"), n)
    /\ Reached("ref_buses") =>
          OneMarkerEach(LayerItems(folium_map, "PyPSA-Earth buses"), m)
C3_Witness ==
    /\ pc = "done"
    /\ \E i \in DOMAIN m.buses : ~InRegion(m.buses[i])
    /\ \E i \in DOMAIN m.buses : InRegion(m.buses[i]) /\ ~InScope(m.buses[i])
    /\ \E i \in DOMAIN m.lines : ~InRegion(m.lines[i])
    /\ \E i \in DOMAIN m.links : InRegion(m.links[i]) /\ ~InScope(m.links[i])
    /\ LayerItems(folium_map, "PyPSA-Eur buses") # <<>>
    /\ LayerItems(folium_map, "PyPSA-Eur lines") # <<>>

(***************************************************************************)
(* C4.  At every iteration boundary of the reference-bus loop the markers  *)
(* of the '50Hertz buses' layer are, one for one and in order, the names   *)
(* of seen, and no name is in seen twice; the names are those of the rows  *)
(* iterated so far (Sub1 and Sub2), so after the loop there is exactly one *)
(* marker per distinct name of the merged table, and every marker is at    *)
(* the coordinates of the first occurrence of its name in iteration order. *)
(***************************************************************************)
\* the occurrences of names in iteration order: Sub1 then Sub2 of each row
Occurrences(rows) ==
    [k \in 1..(2 * Len(rows)) |->
        LET row == rows[(k + 1) \div 2]
        IN IF k % 2 = 1
           THEN [name |-> row.Sub1, location |-> <<row.lat1, row.lon1>>]
           ELSE [name |-> row.Sub2, location |-> <<row.lat2, row.lon2>>]]
FirstLocation(rows, name) ==
    LET occ == Occurrences(rows)
        first == CHOOSE k \in DOMAIN occ :
                    occ[k].name = name /\ \A h \in 1..(k - 1) : occ[h].name # name
    IN occ[first].location
C4_OneMarkerPerName ==
    Reached("ref_buses") =>
        LET items == LayerItems(folium_map, "50Hertz buses")
            done == IF pc = "ref_buses" THEN SubSeq(netzmodell, 1, idx - 1)
                    ELSE netzmodell
        IN /\ Len(items) = Len(seen)
           /\ Cardinality(Range(seen)) = Len(seen)
           /\ Range(seen) = {done[i].Sub1 : i \in DOMAIN done}
                                \cup {done[i].Sub2 : i \in DOMAIN done}
           /\ \A j \in DOMAIN items :
                 /\ items[j].popup = seen[j]
                 /\ items[j].location = FirstLocation(netzmodell, seen[j])
C4_Witness ==
    /\ Reached("eur_lines")
    /\ \E nm \in Range(seen) :
          /\ Cardinality({i \in DOMAIN netzmodell :
                            nm \in {netzmodell[i].Sub1, netzmodell[i].Sub2}}) >= 3
          /\ \E i, j \in DOMAIN netzmodell :
                netzmodell[i].Sub1 = nm /\ netzmodell[j].Sub2 = nm
          /\ Cardinality({j \in DOMAIN LayerItems(folium_map, "50Hertz buses") :
                LayerItems(folium_map, "50Hertz buses")[j].popup = nm}) = 1

(***************************************************************************)
(* C5.  A run whose Eur or Earth network holds a line or a link with an    *)
(* endpoint (bus0 or bus1) that is not in the network's bus table aborts:  *)
(* it never attaches the layer control or writes the output file.          *)
(***************************************************************************)
Dangling(file) ==
    \/ \E i \in DOMAIN file.lines :
          ~HasBus(file.buses, file.lines[i].bus0)
              \/ ~HasBus(file.buses, file.lines[i].bus1)
    \/ \E i \in DOMAIN file.links :
          ~HasBus(file.buses, file.links[i].bus0)
              \/ ~HasBus(file.buses, file.links[i].bus1)
C5_DanglingEndpointAborts ==
    (Dangling(eurFile) \/ Dangling(earthFile)) => pc \notin {"control", "done"}

(***************************************************************************)
(* C6.  The output file is written only by the last statement of a run in  *)
(* which no step failed: when it is written the table had its columns and  *)
(* numeric cells, every rendered branch resolved its endpoints, all three  *)
(* sources are loaded, the map holds all its layers and its layer control, *)
(* and the file is that map.  A run that aborted has written nothing, and  *)
(* an abort on the table's columns leaves no model loaded and no map.      *)
(***************************************************************************)
\* a branch that the rendering pass looks up and cannot resolve
Unresolved(file) ==
    LET region(id) ==
            \E b \in DOMAIN file.buses :
                file.buses[b].id = id /\ file.buses[b].country = "DE"
    IN \/ \E i \in DOMAIN file.lines :
             region(file.lines[i].bus0) /\ ~HasBus(file.buses, file.lines[i].bus1)
       \/ \E i \in DOMAIN file.links :
             /\ region(file.links[i].bus0)
             /\ file.links[i].carrier \in {"AC", "DC"}
             /\ ~HasBus(file.buses, file.links[i].bus1)
InputError ==
    \/ ~csvFile.columnsOk
    \/ ~csvFile.fixedNumeric
    \/ eurFile.buses = <<>>
    \/ Unresolved(eurFile)
    \/ Unresolved(earthFile)
EightNames ==
    {"PyPSA-Eur buses", "PyPSA-Earth buses", "50Hertz buses", "PyPSA-Eur lines",
     "PyPSA-Earth lines", "PyPSA-Eur links", "PyPSA-Earth links", "50Hertz lines"}
HasEightLayers(fm) ==
    /\ Len(fm.layers) = 8
    /\ Range(LayerNamesOf(fm)) = EightNames
C7_EightLayers ==
    /\ folium_map.control => HasEightLayers(folium_map)
    /\ htmlFile.written => htmlFile.map.control /\ HasEightLayers(htmlFile.map)
    /\ pc = "done" => htmlFile.written
C7_Witness ==
    /\ htmlFile.written
    /\ LayerItems(htmlFile.map, "PyPSA-Eur buses") = <<>>
    /\ LayerItems(htmlFile.map, "PyPSA-Eur lines") = <<>>
    /\ LayerItems(htmlFile.map, "PyPSA-Eur links") = <<>>
    /\ LayerItems(htmlFile.map, "50Hertz buses") # <<>>

(***************************************************************************)
(* C8.  As claimed: once a model is loaded, annotated and recomputed, its  *)
(* buses, and its lines and links without the country attribute, are as   *)
(* they were read.                                                         *)
(***************************************************************************)
Without(rec, names) == [f \in (DOMAIN rec) \ names |-> rec[f]]
SameBut(table, read, names) ==
    /\ Len(table) = Len(read)
    /\ \A i \in DOMAIN table :
          Without(table[i], names) = Without(read[i], names)
AsReadButCountry(net, file) ==
    /\ net.buses = file.buses
    /\ SameBut(net.lines, file.lines, {"country"})
    /\ SameBut(net.links, file.links, {"country"})
Derived == {"v_nom", "x_pu", "r_pu"}
AddsCountry(after, before) ==
    /\ after.buses = before.buses
    /\ SameBut(after.lines, before.lines, {"country"})
    /\ SameBut(after.links, before.links, {"country"})
    /\ \A i \in DOMAIN after.lines : "country" \in DOMAIN after.lines[i]
    /\ \A i \in DOMAIN after.links : "country" \in DOMAIN after.links[i]
    /\ \A i \in DOMAIN before.lines : "country" \notin DOMAIN before.lines[i]
RewritesDerived(after, before) ==
    /\ after.buses = before.buses
    /\ after.links = before.links
    /\ SameBut(after.lines, before.lines, Derived)
C9_KeyInjective ==
    Reached("grouped") =>
        \A k \in DOMAIN netzmodell :
            LET g == SelectSeq(SourceRows,
                        LAMBDA row : line_name(row) = netzmodell[k].line_name)
            IN \A i, j \in DOMAIN g : SamePair(g[i], g[j])

(***************************************************************************)
(* C10.  Every source row gives a substation its one position; every       *)
(* merged record then has (lon1, lat1) at the position of its Sub1 and     *)
(* (lon2, lat2) at the position of its Sub2.                               *)
(***************************************************************************)
At(lon, lat, name) == lon = FromNat(Lon(name)) /\ lat = FromNat(Lat(name))
C10_SidesConsistent ==
    Reached("grouped") =>
        \A k \in DOMAIN netzmodell :
            /\ At(netzmodell[k].lon1, netzmodell[k].lat1, netzmodell[k].Sub1)
            /\ At(netzmodell[k].lon2, netzmodell[k].lat2, netzmodell[k].Sub2)

====
